---- MODULE Spec2Model ----
(***************************************************************************)
(* Smart Power Grid Demand-Response Coordinator (smartGrid.cpp).           *)
(*                                                                         *)
(* The model covers the GridController and the three classes it owns:      *)
(* DemandRequest (with CompareDemand), Substation and MaintenanceJob.      *)
(* Megawatts are integers; time_t is an integer clock.  runScheduler is    *)
(* split at the iterations of its allocation loop: entry with the          *)
(* maintenance step, one step per dequeued request, and the re-insertion   *)
(* step with the return.  The controller is single threaded, so while a    *)
(* cycle runs no other operation is enabled.                               *)
(***************************************************************************)
EXTENDS Integers, Sequences, FiniteSets, TLC

\* ---------------------------------------------------------------- bounds
MaxSubs == 2
MaxReqs == 2
MaxJobs == 2
MaxClock == 2

\* ---------------------------------------------------------------- inputs
\* the substations main registers, in its order: S01 50, S02 40, S03 60
SubIds == <<"S01", "S02", "S03">>
Caps == <<50, 40, 60>>
\* priority() of ResidentialRequest, CommercialRequest, IndustrialRequest
Prios == {1, 2, 3}
\* requested megawatts; report accepts any number, a negative one included
MWs == {-5, 30, 45}
\* substation ids named by maintenance commands, and window lengths
JobIds == {"S01", "S02"}
Durations == {1}
Times == 0..MaxClock
\* how long before receiveDemand a request may have been constructed
MaxAge == 1

VARIABLES
  clock,            \* the process-wide time source, time(nullptr)
  substations,      \* GridController::substations, registration order
  reqs,             \* every DemandRequest object handed to receiveDemand
  demandQ,          \* GridController::demandQ, the requests it holds
  maintenanceList,  \* GridController::maintenanceList, insertion order
  pc,               \* position inside runScheduler, "idle" outside of it
  temp              \* runScheduler's local queue temp

vars == <<clock, substations, reqs, demandQ, maintenanceList, pc, temp>>

\* ------------------------------------------------------------ Substation
Substation(i, cap) == [id |-> i, capacityMW |-> cap, usedMW |-> 0, online |-> TRUE]

available(sub) == IF sub.online THEN sub.capacityMW - sub.usedMW ELSE 0

\* allocate with > in place of >=
allocateStrict(sub, mw) ==
  IF available(sub) > mw
    THEN [ok |-> TRUE, sub |-> [sub EXCEPT !.usedMW = sub.usedMW + mw]]
    ELSE [ok |-> FALSE, sub |-> sub]

\* allocate(mw): the returned flag and the substation after the call
allocate(sub, mw) ==
  IF available(sub) >= mw
    THEN [ok |-> TRUE, sub |-> [sub EXCEPT !.usedMW = sub.usedMW + mw]]
    ELSE [ok |-> FALSE, sub |-> sub]

\* -------------------------------------------------------- MaintenanceJob
MaintenanceJob(sid, st, et) ==
  [substationID |-> sid, startTime |-> st, endTime |-> et, state |-> "SCHEDULED"]

\* advanceState whose first test is state != IN_PROGRESS and whose second
\* test is an else branch
advanceStateRestart(job, t) ==
  IF job.state # "IN_PROGRESS" /\ t >= job.startTime
    THEN [job EXCEPT !.state = "IN_PROGRESS"]
    ELSE IF job.state = "IN_PROGRESS" /\ t >= job.endTime
           THEN [job EXCEPT !.state = "DONE"] ELSE job

\* advanceState whose second test is an else branch of the first
advanceStateOneStep(job, t) ==
  IF job.state = "SCHEDULED" /\ t >= job.startTime
    THEN [job EXCEPT !.state = "IN_PROGRESS"]
    ELSE IF job.state = "IN_PROGRESS" /\ t >= job.endTime
           THEN [job EXCEPT !.state = "DONE"] ELSE job

advanceState(job, t) ==
  LET j1 == IF job.state = "SCHEDULED" /\ t >= job.startTime
              THEN [job EXCEPT !.state = "IN_PROGRESS"] ELSE job
  IN  IF j1.state = "IN_PROGRESS" /\ t >= j1.endTime
        THEN [j1 EXCEPT !.state = "DONE"] ELSE j1

\* --------------------------------------------------------- DemandRequest
DemandRequest(p, mw, ts) ==
  [prio |-> p, megawatts |-> mw, timestamp |-> ts, state |-> "CREATED"]

\* CompareDemand with the priority test the wrong way round
CompareDemandLowFirst(a, b) ==
  IF a.prio # b.prio
    THEN a.prio > b.prio
    ELSE a.timestamp > b.timestamp

\* CompareDemand with the timestamp test the wrong way round
CompareDemandNewestFirst(a, b) ==
  IF a.prio # b.prio
    THEN a.prio < b.prio
    ELSE a.timestamp < b.timestamp

\* CompareDemand()(a, b): TRUE when a is ordered below b in the queue
CompareDemand(a, b) ==
  IF a.prio # b.prio
    THEN a.prio < b.prio
    ELSE a.timestamp > b.timestamp

\* demandQ.top(): a request no other pending request is ordered above.  The
\* order among requests that compare equivalent is left open by
\* std::priority_queue, so each of them is a possible top.
Tops(Q, R) == {r \in Q : \A s \in Q : ~CompareDemand(R[r], R[s])}

\* ------------------------------------------------------------------ Init
Init ==
  /\ clock = 0
  /\ substations = <<>>
  /\ reqs = <<>>
  /\ demandQ = {}
  /\ maintenanceList = <<>>
  /\ pc = "idle"
  /\ temp = <<>>

\* the clock moves on between commands
Tick ==
  /\ pc = "idle"
  /\ clock < MaxClock
  /\ clock' = clock + 1
  /\ UNCHANGED <<substations, reqs, demandQ, maintenanceList, pc, temp>>

addSubstation(i, cap) ==
  /\ pc = "idle"
  /\ Len(substations) < MaxSubs
  /\ i = SubIds[Len(substations) + 1]
  /\ cap = Caps[Len(substations) + 1]
  /\ substations' = Append(substations, Substation(i, cap))
  /\ UNCHANGED <<clock, reqs, demandQ, maintenanceList, pc, temp>>

\* receiveDemand without req->state = QUEUED
receiveDemandNoState(p, mw, ts) ==
  /\ pc = "idle"
  /\ Len(reqs) < MaxReqs
  /\ ts <= clock
  /\ ts >= clock - MaxAge
  /\ reqs' = Append(reqs, DemandRequest(p, mw, ts))
  /\ demandQ' = demandQ \cup {Len(reqs) + 1}
  /\ UNCHANGED <<clock, substations, maintenanceList, pc, temp>>

\* receiveDemand(req) for a request constructed at time ts, at most MaxAge
\* before the call (main constructs it right before the call)
receiveDemand(p, mw, ts) ==
  /\ pc = "idle"
  /\ Len(reqs) < MaxReqs
  /\ ts <= clock
  /\ ts >= clock - MaxAge
  /\ reqs' = Append(reqs, [DemandRequest(p, mw, ts) EXCEPT !.state = "QUEUED"])
  /\ demandQ' = demandQ \cup {Len(reqs) + 1}
  /\ UNCHANGED <<clock, substations, maintenanceList, pc, temp>>

\* scheduleMaintenance that applies the new job to the substations at once
scheduleMaintenanceEager(sid, start, end) ==
  /\ pc = "idle"
  /\ Len(maintenanceList) < MaxJobs
  /\ LET job == advanceState(MaintenanceJob(sid, start, end), clock) IN
     /\ maintenanceList' = Append(maintenanceList, job)
     /\ substations' =
          [i \in DOMAIN substations |->
             IF substations[i].id = sid
               THEN [substations[i] EXCEPT !.online = (job.state # "IN_PROGRESS")]
               ELSE substations[i]]
  /\ UNCHANGED <<clock, reqs, demandQ, pc, temp>>

scheduleMaintenance(sid, start, end) ==
  /\ pc = "idle"
  /\ Len(maintenanceList) < MaxJobs
  /\ maintenanceList' = Append(maintenanceList, MaintenanceJob(sid, start, end))
  /\ UNCHANGED <<clock, substations, reqs, demandQ, pc, temp>>

\* ---------------------------------------------------------- runScheduler
\* the inner loop of step 1 dropping the load of a substation it sets offline
setOnlineRelease(subs, job) ==
  [i \in DOMAIN subs |->
     IF subs[i].id = job.substationID
       THEN IF job.state = "IN_PROGRESS"
              THEN [subs[i] EXCEPT !.online = FALSE, !.usedMW = 0]
              ELSE [subs[i] EXCEPT !.online = TRUE]
       ELSE subs[i]]

\* the inner loop of step 1 that takes substations offline and never back
setOnlineNeverBack(subs, job) ==
  [i \in DOMAIN subs |->
     IF subs[i].id = job.substationID /\ job.state = "IN_PROGRESS"
       THEN [subs[i] EXCEPT !.online = FALSE]
       ELSE subs[i]]

\* the inner loop of step 1 without the test of the id
setOnlineAll(subs, job) ==
  [i \in DOMAIN subs |-> [subs[i] EXCEPT !.online = (job.state # "IN_PROGRESS")]]

\* the inner loop of step 1: every substation with the job's id
setOnline(subs, job) ==
  [i \in DOMAIN subs |->
     IF subs[i].id = job.substationID
       THEN [subs[i] EXCEPT !.online = (job.state # "IN_PROGRESS")]
       ELSE subs[i]]

\* step 1 with the flag derived from all jobs of the substation: offline
\* while any of them is in progress
updateMaintenanceDerived(jobs, subs, t, k) ==
  LET adv == [n \in DOMAIN jobs |-> IF n >= k THEN advanceState(jobs[n], t) ELSE jobs[n]]
      mine(i) == {n \in DOMAIN jobs : n >= k /\ adv[n].substationID = subs[i].id}
  IN  [jobs |-> adv,
       subs |-> [i \in DOMAIN subs |->
                   IF mine(i) = {} THEN subs[i]
                   ELSE [subs[i] EXCEPT !.online =
                           \A n \in mine(i) : adv[n].state # "IN_PROGRESS"]]]

\* step 1 from job k on: the maintenance list and the substations after it
RECURSIVE updateMaintenance(_, _, _, _)
updateMaintenance(jobs, subs, t, k) ==
  IF k > Len(jobs)
    THEN [jobs |-> jobs, subs |-> subs]
    ELSE LET job == advanceState(jobs[k], t) IN
         updateMaintenance([jobs EXCEPT ![k] = job], setOnline(subs, job), t, k + 1)

\* entry: now = time(nullptr), then step 1, then temp is declared
SchedBegin ==
  /\ pc = "idle"
  /\ LET res == updateMaintenance(maintenanceList, substations, clock, 1) IN
     /\ maintenanceList' = res.jobs
     /\ substations' = res.subs
  /\ temp' = <<>>
  /\ pc' = "alloc"
  /\ UNCHANGED <<clock, reqs, demandQ>>

\* the for loop of step 2 without its break
RECURSIVE tryAllocateNoBreak(_, _, _)
tryAllocateNoBreak(subs, i, mw) ==
  IF i > Len(subs)
    THEN [allocated |-> FALSE, subs |-> subs]
    ELSE LET res == allocate(subs[i], mw)
             rest == tryAllocateNoBreak([subs EXCEPT ![i] = res.sub], i + 1, mw)
         IN  [allocated |-> res.ok \/ rest.allocated, subs |-> rest.subs]

\* the for loop of step 2 choosing the tightest fit instead of the first
tryAllocateBestFit(subs, i, mw) ==
  LET fits == {k \in i..Len(subs) : allocate(subs[k], mw).ok} IN
  IF fits = {}
    THEN [allocated |-> FALSE, subs |-> subs]
    ELSE LET b == CHOOSE k \in fits : \A m \in fits :
                    \/ available(subs[k]) < available(subs[m])
                    \/ available(subs[k]) = available(subs[m]) /\ k <= m
         IN  [allocated |-> TRUE, subs |-> [subs EXCEPT ![b] = allocate(subs[b], mw).sub]]

\* the for loop of step 2 trying one substation only
tryAllocateFirstOnly(subs, i, mw) ==
  IF i > Len(subs)
    THEN [allocated |-> FALSE, subs |-> subs]
    ELSE LET res == allocate(subs[i], mw) IN
         [allocated |-> res.ok, subs |-> [subs EXCEPT ![i] = res.sub]]

\* the for loop of step 2 from substation i on: first allocate() that succeeds
RECURSIVE tryAllocate(_, _, _)
tryAllocate(subs, i, mw) ==
  IF i > Len(subs)
    THEN [allocated |-> FALSE, subs |-> subs]
    ELSE LET res == allocate(subs[i], mw) IN
         IF res.ok
           THEN [allocated |-> TRUE, subs |-> [subs EXCEPT ![i] = res.sub]]
           ELSE tryAllocate(subs, i + 1, mw)

\* a failed attempt that leaves the request QUEUED
outcomeNoShed(allocated) == IF allocated THEN "ALLOCATED" ELSE "QUEUED"

\* the state the request is given after the for loop
outcome(allocated) == IF allocated THEN "ALLOCATED" ELSE "SHED"

\* one iteration of while (!demandQ.empty())
SchedAlloc ==
  /\ pc = "alloc"
  /\ demandQ # {}
  /\ \E r \in Tops(demandQ, reqs) :
       LET res == tryAllocate(substations, 1, reqs[r].megawatts) IN
       /\ demandQ' = demandQ \ {r}
       /\ substations' = res.subs
       /\ reqs' = [reqs EXCEPT ![r].state = outcome(res.allocated)]
       /\ temp' = Append(temp, r)
  /\ UNCHANGED <<clock, maintenanceList, pc>>

\* step 3 pushing back the shed requests too
requeuedWithShed(t, R) ==
  {t[k] : k \in {n \in DOMAIN t : R[t[n]].state \in {"QUEUED", "SHED"}}}

\* step 3: the requests of temp that are pushed back
requeued(t, R) == {t[k] : k \in {n \in DOMAIN t : R[t[n]].state = "QUEUED"}}

\* demandQ is empty: step 3 runs and runScheduler returns
SchedEnd ==
  /\ pc = "alloc"
  /\ demandQ = {}
  /\ demandQ' = requeued(temp, reqs)
  /\ temp' = <<>>
  /\ pc' = "idle"
  /\ UNCHANGED <<clock, substations, reqs, maintenanceList>>

Next ==
  \/ Tick
  \/ \E i \in {SubIds[k] : k \in DOMAIN SubIds}, cap \in {Caps[k] : k \in DOMAIN Caps} : addSubstation(i, cap)
  \/ \E p \in Prios, mw \in MWs, ts \in Times : receiveDemand(p, mw, ts)
  \/ \E sid \in JobIds, start \in Times, d \in Durations :
       scheduleMaintenance(sid, start, start + d)
  \/ SchedBegin
  \/ SchedAlloc
  \/ SchedEnd

Spec == Init /\ [][Next]_vars

\* ------------------------------------------------- Substation::allocate
\* allocate() called on one substation in any state it can be in, the way
\* runScheduler calls it: the flag it returns decides the state of the
\* request it was called for.
UnitCaps == {40, 50}
UnitUsed == {0, 10, 20, 30, 40}
UnitMWs == {-5, 0, 10, 30, 45}

InitAllocate ==
  /\ clock = 0
  /\ \E cap \in UnitCaps, u \in UnitUsed, on \in BOOLEAN :
       substations = <<[Substation("S01", cap) EXCEPT !.usedMW = u, !.online = on]>>
  /\ reqs = <<>>
  /\ demandQ = {}
  /\ maintenanceList = <<>>
  /\ pc = "alloc"
  /\ temp = <<>>

\* if (sub.allocate(req->megawatts)) ALLOCATED, else SHED, for one substation
CallAllocate(p, mw) ==
  /\ Len(reqs) < MaxReqs
  /\ LET res == allocate(substations[1], mw) IN
     /\ substations' = <<res.sub>>
     /\ reqs' = Append(reqs, [DemandRequest(p, mw, clock) EXCEPT
                                !.state = outcome(res.ok)])
  /\ UNCHANGED <<clock, demandQ, maintenanceList, pc, temp>>

NextAllocate == \E p \in Prios, mw \in UnitMWs : CallAllocate(p, mw)

SpecAllocate == InitAllocate /\ [][NextAllocate]_vars

\* ------------------------------------------------ maintenance in depth
\* The controller driven with every window over Times, start after end
\* included, and with an id no substation has; the demands are all alike.
MaintJobIds == {"S01", "S02", "S99"}
MaintMWs == {30}

NextMaint ==
  \/ Tick
  \/ \E i \in {SubIds[k] : k \in DOMAIN SubIds}, cap \in {Caps[k] : k \in DOMAIN Caps} : addSubstation(i, cap)
  \/ \E mw \in MaintMWs : receiveDemand(2, mw, clock)
  \/ \E sid \in MaintJobIds, start \in Times, end \in Times :
       scheduleMaintenance(sid, start, end)
  \/ SchedBegin
  \/ SchedAlloc
  \/ SchedEnd

SpecMaint == Init /\ [][NextMaint]_vars

\* -------------------------------------------------- requests of one tick
\* One substation of 20 MW and requests of 10 or 15 MW that are received
\* the moment they are constructed, so that those of one clock tick carry
\* the same timestamp.
FifoMWs == {10, 15}

InitFifo ==
  /\ clock = 0
  /\ substations = <<Substation("S01", 20)>>
  /\ reqs = <<>>
  /\ demandQ = {}
  /\ maintenanceList = <<>>
  /\ pc = "idle"
  /\ temp = <<>>

NextFifo ==
  \/ Tick
  \/ \E p \in Prios, mw \in FifoMWs : receiveDemand(p, mw, clock)
  \/ SchedBegin
  \/ SchedAlloc
  \/ SchedEnd

SpecFifo == InitFifo /\ [][NextFifo]_vars

\* ------------------------------------------------- time keeps advancing
\* The controller with jobs whose windows lie within Times, under a clock
\* that keeps advancing (up to MaxClock, past every window) and a caller
\* that keeps invoking runScheduler; a cycle once begun runs to its end.
LiveJobIds == {"S01"}
LiveMWs == {30}

NextLive ==
  \/ Tick
  \/ \E i \in {SubIds[k] : k \in DOMAIN SubIds}, cap \in {Caps[k] : k \in DOMAIN Caps} : addSubstation(i, cap)
  \/ \E mw \in LiveMWs : receiveDemand(2, mw, clock)
  \/ \E sid \in LiveJobIds, start \in Times, end \in Times :
       scheduleMaintenance(sid, start, end)
  \/ SchedBegin
  \/ SchedAlloc
  \/ SchedEnd

SpecLive ==
  /\ Init
  /\ [][NextLive]_vars
  /\ SF_vars(Tick)
  /\ WF_vars(SchedBegin)
  /\ WF_vars(SchedAlloc)
  /\ WF_vars(SchedEnd)

\* ======================================================== properties
Terminal == {"ALLOCATED", "SHED"}

\* temp holds the requests of the running cycle in the order of their attempts
Attempted == {temp[k] : k \in DOMAIN temp}

\* requests that went from QUEUED to st in this step
Moved(r, st) ==
  /\ r \in DOMAIN reqs
  /\ reqs[r].state = "QUEUED"
  /\ reqs'[r].state = st

\* C1: within one cycle a request of a higher priority class is attempted
\* before every pending request of a lower class, whatever the order of receipt:
\* the attempts so far are in non-increasing priority, and no request still
\* in demandQ has a higher priority than one already attempted.
C1_PriorityOrder ==
  /\ \A i, j \in DOMAIN temp :
       i < j => reqs[temp[i]].prio >= reqs[temp[j]].prio
  /\ pc = "alloc" =>
       \A t \in Attempted, q \in demandQ : reqs[t].prio >= reqs[q].prio

\* a cycle attempted the request received second before the one received
\* first, because its priority class is higher
C1_Witness ==
  /\ Len(temp) = 2
  /\ temp[1] > temp[2]
  /\ reqs[temp[1]].prio > reqs[temp[2]].prio

\* C2: within one cycle, of two requests of the same priority class the one
\* with the strictly earlier timestamp is attempted first.
C2_FifoTieBreak ==
  /\ \A i, j \in DOMAIN temp :
       i < j /\ reqs[temp[i]].prio = reqs[temp[j]].prio
         => reqs[temp[i]].timestamp <= reqs[temp[j]].timestamp
  /\ pc = "alloc" =>
       \A t \in Attempted, q \in demandQ :
         reqs[t].prio = reqs[q].prio => reqs[t].timestamp <= reqs[q].timestamp

\* two requests of one class, the older one received second and attempted first
C2_Witness ==
  /\ Len(temp) = 2
  /\ temp[1] > temp[2]
  /\ reqs[temp[1]].prio = reqs[temp[2]].prio
  /\ reqs[temp[1]].timestamp < reqs[temp[2]].timestamp

\* C3: every substation has 0 <= used <= capacity and available() >= 0, and
\* used == capacity - available() when online, in every reachable state.
C3_CapacityInvariant ==
  \A i \in DOMAIN substations :
    LET sub == substations[i] IN
    /\ 0 <= sub.usedMW
    /\ sub.usedMW <= sub.capacityMW
    /\ available(sub) >= 0
    /\ sub.online => sub.usedMW = sub.capacityMW - available(sub)

\* C4: a request that becomes ALLOCATED adds its megawatts to the used value
\* of one substation and leaves every other substation as it was; a request
\* that becomes SHED leaves every substation as it was.
C4_AllocationExclusivity ==
  [][\A r \in DOMAIN reqs :
       /\ Moved(r, "ALLOCATED") =>
            \E i \in DOMAIN substations :
              substations' = [substations EXCEPT
                                ![i].usedMW = @ + reqs[r].megawatts]
       /\ Moved(r, "SHED") => substations' = substations]_vars

\* a cycle has allocated one request and shed another, with two substations
C4_Witness ==
  /\ Len(substations) = 2
  /\ \E a, b \in Attempted :
       /\ reqs[a].state = "ALLOCATED" /\ reqs[a].megawatts > 0
       /\ reqs[b].state = "SHED"

\* C5: during the allocation phase a substation with at least one job in
\* state IN_PROGRESS is offline, so that its available() is 0.
C5_MaintenanceGating ==
  pc = "alloc" =>
    \A i \in DOMAIN substations :
      (\E k \in DOMAIN maintenanceList :
         /\ maintenanceList[k].substationID = substations[i].id
         /\ maintenanceList[k].state = "IN_PROGRESS")
      => ~substations[i].online /\ available(substations[i]) = 0

JobRank(st) == CASE st = "SCHEDULED" -> 0 [] st = "IN_PROGRESS" -> 1 [] st = "DONE" -> 2

\* C6: the state of a maintenance job never moves backwards in the order
\* SCHEDULED, IN_PROGRESS, DONE, and a DONE job stays DONE.
C6_JobMonotonic ==
  [][\A k \in DOMAIN maintenanceList :
       /\ JobRank(maintenanceList'[k].state) >= JobRank(maintenanceList[k].state)
       /\ maintenanceList[k].state = "DONE" => maintenanceList'[k].state = "DONE"]_vars

\* a cycle has just advanced a job that is DONE at a time after its window,
\* and an earlier cycle ran at or after the end of that window
C6_Witness ==
  /\ pc = "alloc"
  /\ \E k \in DOMAIN maintenanceList :
       /\ maintenanceList[k].state = "DONE"
       /\ clock > maintenanceList[k].endTime
       /\ \E r \in DOMAIN reqs :
            /\ reqs[r].state \in Terminal
            /\ r \notin Attempted
            /\ reqs[r].timestamp >= maintenanceList[k].endTime

\* C7: when runScheduler returns demandQ is empty and every request is
\* ALLOCATED or SHED; the re-insertion step pushes nothing back.
C7_CycleDrains ==
  [][pc = "alloc" /\ pc' = "idle" =>
       /\ demandQ' = {}
       /\ requeued(temp, reqs) = {}
       /\ \A r \in DOMAIN reqs' : reqs'[r].state \in Terminal]_vars

\* runScheduler has returned from a cycle that allocated and shed
C7_Witness ==
  /\ pc = "idle"
  /\ demandQ = {}
  /\ \E a, b \in DOMAIN reqs :
       reqs[a].state = "ALLOCATED" /\ reqs[b].state = "SHED"

\* C8: a request that is ALLOCATED or SHED is not in demandQ and is never
\* changed again, in this cycle or a later one.
C8_TerminalIsFinal ==
  [][\A r \in DOMAIN reqs :
       reqs[r].state \in Terminal =>
         /\ r \notin demandQ
         /\ r \notin demandQ'
         /\ reqs'[r] = reqs[r]]_vars

\* a later cycle has attempted all it had pending, and a request shed by an
\* earlier cycle is still SHED although a substation whose maintenance job
\* is DONE is online with room for it (used only grew: every request asked
\* for a positive amount)
C8_Witness ==
  /\ pc = "alloc"
  /\ demandQ = {}
  /\ \A q \in DOMAIN reqs : reqs[q].megawatts > 0
  /\ \E r \in DOMAIN reqs, i \in DOMAIN substations :
       /\ reqs[r].state = "SHED"
       /\ r \notin Attempted
       /\ substations[i].online
       /\ available(substations[i]) >= reqs[r].megawatts
       /\ Len(maintenanceList) = 1
       /\ maintenanceList[1].substationID = substations[i].id
       /\ maintenanceList[1].state = "DONE"

\* the substations a request of mw megawatts fits on, by position
Fits(mw) ==
  {i \in DOMAIN substations :
     /\ mw <= (IF substations[i].online
                 THEN substations[i].capacityMW - substations[i].usedMW ELSE 0)}

\* C9: an allocated request goes to the first substation in registration
\* order whose available() is at least its megawatts at that moment.
C9_FirstFit ==
  [][\A r \in DOMAIN reqs :
       Moved(r, "ALLOCATED") =>
         /\ Fits(reqs[r].megawatts) # {}
         /\ LET f == CHOOSE i \in Fits(reqs[r].megawatts) :
                       \A k \in Fits(reqs[r].megawatts) : i <= k
            IN  substations' = [substations EXCEPT
                                  ![f].usedMW = @ + reqs[r].megawatts]]_vars

\* 30 MW went to S01 (50) although S02 (40) would have been the tighter fit
C9_Witness ==
  /\ pc = "alloc"
  /\ Len(substations) = 2
  /\ substations[1].online /\ substations[2].online
  /\ substations[1].usedMW = 30 /\ substations[2].usedMW = 0
  /\ \E r \in Attempted : reqs[r].state = "ALLOCATED" /\ reqs[r].megawatts = 30

\* C10: an attempted request ends SHED exactly when no substation has
\* available() >= its megawatts at the moment of the attempt, and ends
\* ALLOCATED otherwise.
C10_ShedIffNoFit ==
  [][\A r \in DOMAIN reqs :
       reqs[r].state = "QUEUED" /\ reqs'[r].state # "QUEUED" =>
         /\ reqs'[r].state \in Terminal
         /\ reqs'[r].state = "SHED" <=> Fits(reqs[r].megawatts) = {}]_vars

\* the scenario: S01 50, S02 40, Industrial 30 then Residential 45, one cycle
C10_Witness ==
  /\ pc = "idle"
  /\ Len(substations) = 2 /\ Len(reqs) = 2
  /\ substations[1].id = "S01" /\ substations[1].capacityMW = 50
  /\ substations[2].id = "S02" /\ substations[2].capacityMW = 40
  /\ reqs[1].prio = 3 /\ reqs[1].megawatts = 30 /\ reqs[1].state = "ALLOCATED"
  /\ reqs[2].prio = 1 /\ reqs[2].megawatts = 45 /\ reqs[2].state = "SHED"
  /\ substations[1].usedMW = 30 /\ substations[2].usedMW = 0
  /\ substations[1].online /\ substations[2].online

\* C11: allocate(mw) succeeds and adds mw to used exactly when available()
\* >= mw before the call; otherwise it fails and leaves used and online as
\* they were.  On an offline substation a positive mw always fails.
C11_AllocateContract ==
  [][Len(reqs') = Len(reqs) + 1 =>
       LET sub == substations[1]
           mw == reqs'[Len(reqs')].megawatts
           ok == reqs'[Len(reqs')].state = "ALLOCATED"
           av == IF sub.online THEN sub.capacityMW - sub.usedMW ELSE 0
       IN  /\ ok <=> av >= mw
           /\ ok => substations'[1] = [sub EXCEPT !.usedMW = sub.usedMW + mw]
           /\ ~ok => substations'[1] = sub
           /\ ~sub.online /\ mw > 0 => ~ok /\ substations'[1] = sub]_vars

\* the last call failed on an offline substation that had the capacity left,
\* and an earlier call succeeded with mw equal to what was available
C11_Witness ==
  /\ Len(reqs) = 2
  /\ ~substations[1].online
  /\ reqs[2].state = "SHED" /\ reqs[2].megawatts > 0
  /\ substations[1].capacityMW - substations[1].usedMW >= reqs[2].megawatts
  /\ reqs[1].state = "ALLOCATED" /\ reqs[1].megawatts = 0

\* the state advance(t) leaves a job in, read off its window
ExpectedState(job, t) ==
  CASE job.state = "DONE" -> "DONE"
    [] job.state = "IN_PROGRESS" -> IF t >= job.endTime THEN "DONE" ELSE "IN_PROGRESS"
    [] job.state = "SCHEDULED" ->
         IF t < job.startTime THEN "SCHEDULED"
         ELSE IF t < job.endTime THEN "IN_PROGRESS" ELSE "DONE"

\* the step that enters runScheduler and runs its maintenance step
MaintenanceStep == pc = "idle" /\ pc' = "alloc"

RegisteredIds == {substations[i].id : i \in DOMAIN substations}

Registered(job) == job.substationID \in RegisteredIds

\* C12: a job whose id matches no registered substation is inert: the
\* maintenance step leaves the substations as the jobs for registered ids
\* alone would, no other step touches them on its behalf, and the job itself
\* stays in the list and advances through its states.
C12_UnknownJobInert ==
  [][MaintenanceStep =>
       /\ substations' =
            updateMaintenance(SelectSeq(maintenanceList, Registered),
                              substations, clock, 1).subs
       /\ (\A k \in DOMAIN maintenanceList : ~Registered(maintenanceList[k]))
            => substations' = substations
       /\ \A k \in DOMAIN maintenanceList :
            ~Registered(maintenanceList[k]) =>
              maintenanceList'[k] =
                [maintenanceList[k] EXCEPT
                   !.state = ExpectedState(maintenanceList[k], clock)]]_vars

\* a cycle has put a job for S99 in progress next to a job for S01 that is
\* not in progress, and both registered substations are online
C12_Witness ==
  /\ pc = "alloc"
  /\ Len(substations) = 2
  /\ substations[1].online /\ substations[2].online
  /\ Len(maintenanceList) = 2
  /\ maintenanceList[1].substationID = "S01"
  /\ maintenanceList[2].substationID = "S99"
  /\ maintenanceList[2].state = "IN_PROGRESS"

\* the positions in the maintenance list of the jobs for substation i
JobsOf(i) ==
  {k \in DOMAIN maintenanceList : maintenanceList[k].substationID = substations[i].id}

LastJobOf(i) == CHOOSE k \in JobsOf(i) : \A n \in JobsOf(i) : n <= k

\* C15: after the maintenance step a substation that jobs refer to is online
\* exactly when the last of those jobs in the list is not IN_PROGRESS,
\* whatever the earlier ones are; a substation no job refers to keeps its flag.
C15_LastWriteWins ==
  [][MaintenanceStep =>
       \A i \in DOMAIN substations :
         IF JobsOf(i) = {}
           THEN substations'[i].online = substations[i].online
           ELSE substations'[i].online =
                  (maintenanceList'[LastJobOf(i)].state # "IN_PROGRESS")]_vars

\* S01 is online after the maintenance step although its first job is in
\* progress: its second job is not
C15_Witness ==
  /\ pc = "alloc"
  /\ Len(substations) >= 1 /\ substations[1].online
  /\ Len(maintenanceList) = 2
  /\ maintenanceList[1].substationID = "S01"
  /\ maintenanceList[2].substationID = "S01"
  /\ maintenanceList[1].state = "IN_PROGRESS"
  /\ maintenanceList[2].state # "IN_PROGRESS"

\* C16: one advance(now) takes a SCHEDULED job to SCHEDULED if now < start,
\* to IN_PROGRESS if start <= now < end, and to DONE if now >= start and
\* now >= end; a job that goes from SCHEDULED to DONE in one call, being the
\* last job of its substation, leaves the substation online.
C16_SingleAdvance ==
  [][MaintenanceStep =>
       \A k \in DOMAIN maintenanceList :
         LET job == maintenanceList[k] IN
         job.state = "SCHEDULED" =>
           /\ clock < job.startTime => maintenanceList'[k].state = "SCHEDULED"
           /\ job.startTime <= clock /\ clock < job.endTime
                => maintenanceList'[k].state = "IN_PROGRESS"
           /\ clock >= job.startTime /\ clock >= job.endTime
                => /\ maintenanceList'[k].state = "DONE"
                   /\ \A i \in DOMAIN substations :
                        k \in JobsOf(i) /\ k = LastJobOf(i)
                          => substations'[i].online]_vars

\* the only job is DONE for a registered substation that is online, and its
\* window is such that no advance can have left it IN_PROGRESS
C16_Witness ==
  /\ pc = "alloc"
  /\ Len(maintenanceList) = 1
  /\ maintenanceList[1].state = "DONE"
  /\ maintenanceList[1].startTime >= maintenanceList[1].endTime
  /\ \E i \in DOMAIN substations :
       substations[i].id = maintenanceList[1].substationID /\ substations[i].online

\* C13: of two requests of one priority class the one received first is
\* attempted first, equal timestamps included; Commercial 10 MW then 15 MW
\* on a single substation of 20 MW end ALLOCATED (used = 10) and SHED.
C13_ReceiptOrder ==
  /\ \A i, j \in DOMAIN temp :
       i < j /\ reqs[temp[i]].prio = reqs[temp[j]].prio => temp[i] < temp[j]
  /\ pc = "alloc" =>
       \A t \in Attempted, q \in demandQ : reqs[t].prio = reqs[q].prio => t < q
  /\ ( /\ Len(reqs) = 2
       /\ reqs[1].prio = 2 /\ reqs[1].megawatts = 10
       /\ reqs[2].prio = 2 /\ reqs[2].megawatts = 15
       /\ reqs[1].state \in Terminal /\ reqs[2].state \in Terminal )
     => /\ reqs[1].state = "ALLOCATED"
        /\ reqs[2].state = "SHED"
        /\ substations[1].usedMW = 10

\* C14: while a substation's only job has start <= now < end, a cycle has the
\* substation offline before it attempts any allocation, and every request
\* it attempts that this substation alone has the capacity for is SHED.
C14_WindowSheds ==
  [][\A i \in DOMAIN substations, k \in DOMAIN maintenanceList :
       ( /\ pc = "alloc"
         /\ JobsOf(i) = {k}
         /\ maintenanceList[k].startTime <= clock
         /\ clock < maintenanceList[k].endTime )
       => /\ ~substations[i].online
          /\ \A r \in DOMAIN reqs :
               ( /\ reqs[r].state = "QUEUED"
                 /\ reqs'[r].state # "QUEUED"
                 /\ reqs[r].megawatts <=
                      substations[i].capacityMW - substations[i].usedMW
                 /\ \A j \in DOMAIN substations \ {i} :
                      available(substations[j]) < reqs[r].megawatts )
               => reqs'[r].state = "SHED"]_vars

\* C17: every request in demandQ is QUEUED and no request is COMPLETED; a
\* request enters as QUEUED through receiveDemand, and the only changes of
\* state are QUEUED to ALLOCATED and QUEUED to SHED, inside runScheduler.
C17_RequestLifecycle ==
  [][/\ \A q \in demandQ : reqs[q].state = "QUEUED"
     /\ \A q \in demandQ' : reqs'[q].state = "QUEUED"
     /\ \A r \in DOMAIN reqs' : reqs'[r].state # "COMPLETED"
     /\ \A r \in DOMAIN reqs :
          reqs'[r].state # reqs[r].state =>
            /\ reqs[r].state = "QUEUED"
            /\ reqs'[r].state \in Terminal
            /\ pc = "alloc"
     /\ \A r \in DOMAIN reqs' \ DOMAIN reqs :
          /\ reqs'[r].state = "QUEUED"
          /\ r \in demandQ'
          /\ pc = "idle"]_vars

\* in the middle of a cycle: one request shed, the other still pending
C17_Witness ==
  /\ pc = "alloc"
  /\ Len(reqs) = 2
  /\ \E a \in Attempted : reqs[a].state = "SHED"
  /\ \E q \in demandQ : reqs[q].state = "QUEUED"

\* C18: outside runScheduler no operation changes a registered substation;
\* inside it the maintenance step leaves used alone and the allocation and
\* re-insertion steps leave online alone, so a window that opens or closes
\* between two cycles shows on no substation before the next cycle.
C18_Frame ==
  [][\A i \in DOMAIN substations :
       /\ substations'[i].id = substations[i].id
       /\ substations'[i].capacityMW = substations[i].capacityMW
       /\ pc = "idle" /\ pc' = "idle" => substations'[i] = substations[i]
       /\ MaintenanceStep => substations'[i].usedMW = substations[i].usedMW
       /\ pc = "alloc" => substations'[i].online = substations[i].online]_vars

\* between two cycles: the window of S01's job has closed and S01 is still
\* offline, the window of S02's job has opened and S02 is still online
C18_Witness ==
  /\ pc = "idle"
  /\ Len(substations) = 2 /\ Len(maintenanceList) = 2
  /\ maintenanceList[1].substationID = "S01"
  /\ maintenanceList[1].state = "IN_PROGRESS"
  /\ clock >= maintenanceList[1].endTime
  /\ ~substations[1].online
  /\ maintenanceList[2].substationID = "S02"
  /\ maintenanceList[2].state = "SCHEDULED"
  /\ maintenanceList[2].startTime <= clock /\ clock < maintenanceList[2].endTime
  /\ substations[2].online

RECURSIVE SumUsed(_)
SumUsed(subs) ==
  IF subs = <<>> THEN 0 ELSE Head(subs).usedMW + SumUsed(Tail(subs))

RECURSIVE SumAllocated(_)
SumAllocated(R) ==
  IF R = <<>> THEN 0
  ELSE (IF Head(R).state = "ALLOCATED" THEN Head(R).megawatts ELSE 0)
       + SumAllocated(Tail(R))

\* C19: the used values of all substations add up to the megawatts of all
\* ALLOCATED requests: nothing is released, and a substation that goes
\* offline or comes back keeps its used value.
C19_UsedIsAllocated == SumUsed(substations) = SumAllocated(reqs)

\* a substation that carries load is offline, and the sums still agree
C19_Witness ==
  /\ pc = "idle"
  /\ \E i \in DOMAIN substations :
       ~substations[i].online /\ substations[i].usedMW > 0
  /\ SumAllocated(reqs) > 0

\* C20: with finitely many jobs, a clock that keeps advancing and
\* runScheduler invoked again and again, every job in the list eventually is
\* DONE, and from some time on every substation is online for good.
C20_MaintenanceEnds ==
  /\ \A k \in 1..MaxJobs :
       (k \in DOMAIN maintenanceList) ~>
         (k \in DOMAIN maintenanceList /\ maintenanceList[k].state = "DONE")
  /\ <>[](\A i \in DOMAIN substations : substations[i].online)

\* a substation that was offline is online again at the end of the clock,
\* with two jobs on it DONE
C20_Witness ==
  /\ pc = "idle"
  /\ clock = MaxClock
  /\ Len(maintenanceList) = 2
  /\ maintenanceList[1].state = "DONE" /\ maintenanceList[2].state = "DONE"
  /\ maintenanceList[1].startTime < maintenanceList[1].endTime
  /\ maintenanceList[1].substationID = "S01"
  /\ maintenanceList[2].substationID = "S01"
  /\ Len(substations) >= 1 /\ substations[1].online
  /\ \E r \in DOMAIN reqs : reqs[r].state = "SHED"

====
